---- MODULE Spec2Model ----
(***************************************************************************)
(* Model of process_videos.py: the batch driver main(), the per-project    *)
(* pipeline process_project(), and the progress-tracking process runner    *)
(* run_ffmpeg_with_progress() together with the child process it drives.   *)
(*                                                                         *)
(* Times are kept in centiseconds (1 s = 100), so that the code's          *)
(*   int(h)*3600 + int(m)*60 + int(s) + int(ms)/100.0   seconds            *)
(* is the integer 360000*h + 6000*m + 100*s + int(ms) centiseconds.        *)
(* A Python value that may be None is a sequence: <<>> is None, <<v>> is v.*)
(***************************************************************************)
EXTENDS Integers, Sequences, FiniteSets, TLC

(* ------------------------------ bounds --------------------------------- *)
MaxProjects == 2        \* project directories in VID
MaxLines == 2           \* lines a child writes to its diagnostic stream (stderr)
PipeCap == 2            \* lines the stderr pipe holds before a write blocks

(* ------------------------- input domains ------------------------------- *)
ProjNames == <<"Demo", "Clip", "Trip", "Reel">>
DurationValues == {0, 2000}             \* ffprobe durations, centiseconds
ExitCodes == {0, 1, 2}                  \* exit statuses of the ffmpeg child
ArgvCodecs == {<<>>, <<"h265">>, <<"H264">>}   \* value after --codec, if any

None == <<>>
Some(v) == <<v>>
\* mutation of Truthy: every supplied number counts as true
TruthySupplied(opt) == opt # None
Truthy(opt) == opt # None /\ opt[1] # 0      \* Python truth of None / number

(* --------------------------- diagnostic lines -------------------------- *)
\* A line of the child's stderr is a sequence of characters.
DigitChars == <<"0", "1", "2", "3", "4", "5", "6", "7", "8", "9">>
IsDigit(c) == \E i \in 1..10 : DigitChars[i] = c
DigitVal(c) == (CHOOSE i \in 1..10 : DigitChars[i] = c) - 1

TimeEq == <<"t", "i", "m", "e", "=">>

\* ffmpeg's rendering of a two-digit field
TwoDigits(n) == <<DigitChars[(n \div 10) + 1], DigitChars[(n % 10) + 1]>>

\* "frame= 1 fps=0.0 ..." : no "time=" at all
PlainLine == <<"f", "p", "s", "=", "0", ".", "0">>
\* "time=N/A": ffmpeg's marker before the first frame
TimeNALine == TimeEq \o <<"N", "/", "A">>
\* "time=HH:MM:SS.CC bitrate..." as ffmpeg prints it
Stamp(h, m, s, cc) ==
    TimeEq \o TwoDigits(h) \o <<":">> \o TwoDigits(m) \o <<":">> \o TwoDigits(s)
           \o <<".">> \o TwoDigits(cc) \o <<" ", "b">>

\* the lines a child of the batch writes
Lines == {PlainLine, TimeNALine,
          Stamp(0, 0, 5, 0),        \* time=00:00:05.00
          Stamp(0, 0, 3, 50),       \* time=00:00:03.50
          Stamp(1, 1, 1, 1)}        \* time=01:01:01.01

\* the lines one loop iteration is scanned on: markers over the range of each
\* field, and lines the pattern does not match
MarkerFields == [h : {0, 1, 12}, m : {0, 7, 59}, s : {0, 5, 59}, cc : {0, 1, 50, 99}]
MarkerLine(f) == Stamp(f.h, f.m, f.s, f.cc)
NegativeLine == TimeEq \o <<"-">> \o TwoDigits(0) \o <<":">> \o TwoDigits(0) \o <<":">>
                       \o TwoDigits(0) \o <<".">> \o TwoDigits(2)
TruncatedLine == TimeEq \o TwoDigits(0) \o <<":">> \o TwoDigits(0)
UnmatchedLines == {PlainLine, TimeNALine, NegativeLine, TruncatedLine, <<>>}
UnitLines == {MarkerLine(f) : f \in MarkerFields} \cup UnmatchedLines \cup
             {TimeNALine \o <<" ">> \o Stamp(0, 0, 3, 50)}

\* line[i..] starts with the characters of s
StartsAt(line, i, s) ==
    /\ i + Len(s) - 1 <= Len(line)
    /\ \A k \in 1..Len(s) : line[i + k - 1] = s[k]

\* "time=" in line
ContainsTime(line) == \E i \in 1..Len(line) : StartsAt(line, i, TimeEq)

\* the end of the longest run of digits starting at position a (a - 1 if none)
DigitsEnd(line, a) ==
    LET ends == {e \in (a - 1)..Len(line) : \A k \in a..e : IsDigit(line[k])}
    IN  CHOOSE e \in ends : \A f \in ends : f <= e

\* time_pattern.match at position i: r"time=(\d+):(\d+):(\d+).(\d+)".
\* The first two groups are the whole digit runs before a ":"; the third is the
\* longest prefix of its run that leaves one arbitrary character and a digit
\* behind it (greedy, with backtracking); the fourth is the digit run after that.
MatchAt(line, i) ==
    LET a1 == i + Len(TimeEq)
        e1 == DigitsEnd(line, a1)
        a2 == e1 + 2
        e2 == DigitsEnd(line, a2)
        a3 == e2 + 2
        r3 == DigitsEnd(line, a3)
        c3 == {e \in a3..r3 : e + 2 <= Len(line) /\ IsDigit(line[e + 2])}
        e3 == CHOOSE e \in c3 : \A f \in c3 : f <= e
        a4 == e3 + 2
        e4 == DigitsEnd(line, a4)
    IN  IF /\ StartsAt(line, i, TimeEq)
           /\ e1 >= a1 /\ e1 < Len(line) /\ line[e1 + 1] = ":"
           /\ e2 >= a2 /\ e2 < Len(line) /\ line[e2 + 1] = ":"
           /\ c3 # {}
        THEN Some([h |-> SubSeq(line, a1, e1), m |-> SubSeq(line, a2, e2),
                   s |-> SubSeq(line, a3, e3), ms |-> SubSeq(line, a4, e4)])
        ELSE None

\* time_pattern.search(line): the groups of the leftmost match, or None
Search(line) ==
    LET hits == {i \in 1..Len(line) : MatchAt(line, i) # None}
    IN  IF hits = {} THEN None
        ELSE MatchAt(line, CHOOSE i \in hits : \A k \in hits : i <= k)

\* int() of a string of decimal digits
RECURSIVE DigitsToInt(_)
DigitsToInt(ds) ==
    IF ds = <<>> THEN 0
    ELSE 10 * DigitsToInt(SubSeq(ds, 1, Len(ds) - 1)) + DigitVal(ds[Len(ds)])

\* mutation of Seconds: the last group is taken as tenths of a second
SecondsTenths(g) ==
    360000 * DigitsToInt(g.h) + 6000 * DigitsToInt(g.m) + 100 * DigitsToInt(g.s)
        + 10 * DigitsToInt(g.ms)

\* seconds = int(h)*3600 + int(m)*60 + int(s) + int(ms)/100.0, in centiseconds
Seconds(g) ==
    360000 * DigitsToInt(g.h) + 6000 * DigitsToInt(g.m) + 100 * DigitsToInt(g.s)
        + DigitsToInt(g.ms)

Min(a, b) == IF a <= b THEN a ELSE b
Max(a, b) == IF a >= b THEN a ELSE b

(* ------------------------------ paths ---------------------------------- *)
ProjDir(p) == <<"VID", ProjNames[p]>>
WorkDir(p) == Append(ProjDir(p), "02_Work")
FinalDir(p) == Append(ProjDir(p), "03_Final")
NormalizedVideo(p) == [dir |-> WorkDir(p), name |-> <<"normalized", ".mp4">>]
FinalVideo(p) == [dir |-> FinalDir(p), name |-> <<ProjNames[p], "_final.mp4">>]
MainVideo(p) == [dir |-> ProjDir(p), name |-> <<"main", ".mp4">>]

VARIABLES
    \* the world main() runs in
    vidExists,      \* VID_DIR.exists()
    projects,       \* the listing: per project directory, which inputs it has
    argv,           \* the value following --codec, or None
    dirs,           \* directories created so far
    files,          \* output files written so far
    args,           \* the arguments of a function taken on its own, or None
    \* main()
    mpc, idx, codec, exitStatus, started,
    \* process_project()
    ppc, rawDur, main_dur, info, filter, probes, invocations,
    \* run_ffmpeg_with_progress()
    rpc, cmd, total_duration, pbar, returncode, launches, exc,
    line,           \* the line under scan when one loop iteration is taken on its own
    \* the ffmpeg child process
    child, stderrOpen, written, childRc,
    pipeOpen,       \* the parent's process.stderr file object is open
    buf,            \* lines written to the stderr pipe and not yet read
    \* the exit statuses process.wait() has delivered to the current activation
    exits

worldVars == <<vidExists, projects, argv, dirs, files, args>>
mainVars == <<mpc, idx, codec, exitStatus, started>>
projVars == <<ppc, rawDur, main_dur, info, filter, probes, invocations>>
runVars == <<rpc, cmd, total_duration, pbar, returncode, launches, exc, line>>
childVars == <<child, stderrOpen, written, childRc, pipeOpen, buf>>
vars == <<worldVars, mainVars, projVars, runVars, childVars, exits>>

(* ===================== run_ffmpeg_with_progress ======================== *)
\* tqdm(total=total_duration, ...): a fresh indicator at n = 0
Tqdm(total) == [n |-> 0, total |-> total, closed |-> FALSE]

\* mutation of NewPbar: an indicator is created whatever the hint is
NewPbarAlways(total) == Some(Tqdm(IF total = None THEN 0 ELSE total[1]))

\* lines 23-25: pbar = None; if total_duration: pbar = tqdm(...)
NewPbar(total) == IF Truthy(total) THEN Some(Tqdm(total[1])) ELSE None

\* mutation of Clamp: the parsed time is published unclamped
ClampDropped(seconds, total) == seconds

\* line 35: min(seconds, total_duration)
Clamp(seconds, total) == Min(seconds, total)

\* lines 30-36: the body of the read loop for one line
UpdatePbar(bar, total, l) ==
    IF ContainsTime(l) /\ Truthy(total) /\ bar # None
    THEN IF Search(l) # None
         THEN Some([bar[1] EXCEPT !.n = Clamp(Seconds(Search(l)[1]), total[1])])
         ELSE bar
    ELSE bar

\* mutation of FinishPbar: the indicator is closed where it stands
FinishPbarKeepsN(bar) ==
    IF bar # None THEN Some([bar[1] EXCEPT !.closed = TRUE]) ELSE bar

\* lines 40-42: pbar.n = pbar.total; pbar.close()
FinishPbar(bar) ==
    IF bar # None THEN Some([bar[1] EXCEPT !.n = bar[1].total, !.closed = TRUE])
    ELSE bar

\* mutation of Failed: only exit status 1 counts as a failure
FailedOnlyOne(rc) == rc = 1

\* line 44: process.returncode != 0
Failed(rc) == rc # 0

CalledProcessError(rc, c) == [type |-> "CalledProcessError", returncode |-> rc, cmd |-> c]
ProbeError(c) == [type |-> "ProbeError", returncode |-> 1, cmd |-> c]

\* lines 11-21: subprocess.Popen(cmd, stderr=PIPE, ...)
Popen ==
    /\ rpc = "call"
    /\ launches' = launches + 1
    /\ child' = "running"
    /\ stderrOpen' = TRUE
    /\ written' = 0
    /\ childRc' = None
    /\ pipeOpen' = TRUE
    /\ buf' = <<>>
    /\ rpc' = "mkpbar"
    /\ UNCHANGED <<exits, worldVars, mainVars, projVars, line, cmd, total_duration, pbar,
                   returncode, exc>>

\* lines 23-27
MakePbar ==
    /\ rpc = "mkpbar"
    /\ pbar' = NewPbar(total_duration)
    /\ rpc' = "reading"
    /\ UNCHANGED <<exits, worldVars, mainVars, projVars, line, cmd, total_duration,
                   returncode, launches, exc, childVars>>

\* lines 29-36: the child writes one line to stderr and the loop consumes it
ReadLine ==
    /\ rpc = "reading"
    /\ child = "running" /\ stderrOpen
    /\ written < MaxLines
    /\ \E l \in Lines :
          pbar' = UpdatePbar(pbar, total_duration, l)
    /\ written' = written + 1
    /\ UNCHANGED <<exits, worldVars, mainVars, projVars, rpc, line, cmd, total_duration,
                   returncode, launches, exc, child, stderrOpen, childRc, pipeOpen, buf>>

\* mutation of AtEOF: the loop ends as soon as the child's end is closed
AtEOFUnread(open, b) == ~open

\* end-of-stream: every writer has closed its end and nothing is left to read
AtEOF(open, b) == ~open /\ b = <<>>

\* line 29: the for loop ends when the stream is at end-of-stream
ReadEOF ==
    /\ rpc = "reading"
    /\ AtEOF(stderrOpen, buf)
    /\ rpc' = "wait"
    /\ UNCHANGED <<exits, worldVars, mainVars, projVars, line, cmd, total_duration, pbar,
                   returncode, launches, exc, childVars>>

\* line 38: process.wait() returns once the child has exited
Wait ==
    /\ rpc = "wait"
    /\ child = "exited"
    /\ returncode' = childRc
    /\ exits' = Append(exits, childRc[1])
    /\ rpc' = "finish"
    /\ UNCHANGED <<worldVars, mainVars, projVars, line, cmd, total_duration, pbar,
                   launches, exc, childVars>>

\* mutation of ClosePbar: the indicator is finished only after a clean exit
ClosePbarOnSuccess ==
    /\ rpc = "finish"
    /\ pbar' = IF Failed(returncode[1]) THEN pbar ELSE FinishPbar(pbar)
    /\ rpc' = "check"
    /\ UNCHANGED <<exits, worldVars, mainVars, projVars, line, cmd, total_duration,
                   returncode, launches, exc, childVars>>

\* lines 40-42
ClosePbar ==
    /\ rpc = "finish"
    /\ pbar' = FinishPbar(pbar)
    /\ rpc' = "check"
    /\ UNCHANGED <<exits, worldVars, mainVars, projVars, line, cmd, total_duration,
                   returncode, launches, exc, childVars>>

\* lines 44-45: raise CalledProcessError(returncode, cmd), or fall off the end
CheckReturncode ==
    /\ rpc = "check"
    /\ IF Failed(returncode[1])
       THEN /\ exc' = Some(CalledProcessError(returncode[1], cmd))
            /\ rpc' = "raised"
       ELSE /\ exc' = exc
            /\ rpc' = "returned"
    /\ UNCHANGED <<exits, worldVars, mainVars, projVars, line, cmd, total_duration, pbar,
                   returncode, launches, childVars>>

(* ------------------- the stderr pipe with its buffer ------------------- *)
\* the child writes one line to stderr; the write blocks while the pipe is full
ChildWrite ==
    /\ child = "running" /\ stderrOpen
    /\ written < MaxLines
    /\ Len(buf) < PipeCap
    /\ \E l \in Lines : buf' = Append(buf, l)
    /\ written' = written + 1
    /\ UNCHANGED <<exits, worldVars, mainVars, projVars, runVars, child, stderrOpen,
                   childRc, pipeOpen>>

\* lines 29-36: the loop takes the next line out of the pipe
PipeRead ==
    /\ rpc = "reading"
    /\ buf # <<>>
    /\ pbar' = UpdatePbar(pbar, total_duration, Head(buf))
    /\ buf' = Tail(buf)
    /\ UNCHANGED <<exits, worldVars, mainVars, projVars, rpc, line, cmd, total_duration,
                   returncode, launches, exc, child, stderrOpen, written, childRc, pipeOpen>>

(* ------------------------- the ffmpeg child ---------------------------- *)
\* the child may close its stderr before it exits
ChildCloseStderr ==
    /\ child = "running" /\ stderrOpen
    /\ rpc \in {"mkpbar", "reading"}
    /\ stderrOpen' = FALSE
    /\ UNCHANGED <<exits, worldVars, mainVars, projVars, runVars, child, written, childRc,
                   pipeOpen, buf>>

\* the child exits with some status; exit closes its end of the pipe.
\* ffmpeg -y writes cmd.output: always on success, possibly partially on failure.
ChildExit ==
    /\ child = "running"
    /\ rpc \in {"mkpbar", "reading", "wait"}
    /\ \E rc \in ExitCodes, partial \in BOOLEAN :
          /\ childRc' = Some(rc)
          /\ files' = IF rc = 0 \/ partial THEN files \cup {cmd.output} ELSE files
    /\ child' = "exited"
    /\ stderrOpen' = FALSE
    /\ UNCHANGED <<exits, vidExists, projects, argv, args, dirs, mainVars, projVars, runVars,
                   written, pipeOpen, buf>>

RunNext ==
    \/ Popen
    \/ MakePbar
    \/ ReadLine
    \/ ReadEOF
    \/ Wait
    \/ ClosePbar
    \/ CheckReturncode
    \/ ChildCloseStderr
    \/ ChildExit
(* ============================ probes =================================== *)
\* the decimal rendering of an integer, as ffprobe prints it
RECURSIVE NatToDigits(_)
NatToDigits(n) ==
    IF n < 10 THEN <<DigitChars[n + 1]>>
    ELSE Append(NatToDigits(n \div 10), DigitChars[(n % 10) + 1])
IntToChars(n) == IF n < 0 THEN <<"-">> \o NatToDigits(-n) ELSE NatToDigits(n)

\* ffprobe's three output lines for stream=width,height,r_frame_rate
StreamLines(w, h, num, den) ==
    [width |-> IntToChars(w), height |-> IntToChars(h),
     fps_str |-> IntToChars(num) \o <<"/">> \o IntToChars(den)]

StreamOutputs == {StreamLines(1920, 1080, 30, 1), StreamLines(1280, 720, 0, 0)}

\* int() of an optionally signed string of decimal digits
ParseInt(s) == IF s[1] = "-" THEN -DigitsToInt(Tail(s)) ELSE DigitsToInt(s)

\* line 78: fps_str.split("/") of a string with one "/"
SplitSlash(s) ==
    LET p == CHOOSE i \in 1..Len(s) : s[i] = "/"
    IN  <<SubSeq(s, 1, p - 1), SubSeq(s, p + 1, Len(s))>>

\* mutation of Fps: the guard looks at the numerator
FpsGuardsNum(num, den) ==
    IF num # 0 THEN [num |-> num, den |-> den] ELSE [num |-> 25, den |-> 1]

\* line 79: fps = num / den if den != 0 else 25, as an exact fraction
Fps(num, den) == IF den # 0 THEN [num |-> num, den |-> den] ELSE [num |-> 25, den |-> 1]

\* lines 76-80: the parsed (width, height, fps) of ffprobe's three lines
StreamInfo(out) ==
    LET parts == SplitSlash(out.fps_str)
        num == ParseInt(parts[1])
        den == ParseInt(parts[2])
    IN  [w |-> ParseInt(out.width), h |-> ParseInt(out.height), fps |-> Fps(num, den)]

NoInfo == [w |-> 0, h |-> 0, fps |-> [num |-> 0, den |-> 1]]

(* ======================= build_crossfade_filter ======================== *)
IntroVisible == 400         \* intro_visible=4.0
CrossfadeDur == 100         \* crossfade_dur=1.0
HintPadding == 800          \* main_dur + 8

\* mutation of CrossfadeFilter: the second offset forgets the crossfade
CrossfadeFilterNoOverlap(dur, w, h, fps, intro_visible, crossfade_dur) ==
    [w |-> w, h |-> h, fps |-> fps,
     xfade1 |-> [duration |-> crossfade_dur, offset |-> intro_visible],
     xfade2 |-> [duration |-> crossfade_dur, offset |-> intro_visible + dur],
     afade |-> [st |-> Max(0, dur - crossfade_dur), d |-> crossfade_dur],
     adelay |-> intro_visible * 10]

\* lines 88-103: the numbers the returned graph carries, node by node:
\* scale/pad to w:h at fps, the two xfade nodes, the afade and the adelay (ms)
CrossfadeFilter(dur, w, h, fps, intro_visible, crossfade_dur) ==
    LET offset1 == intro_visible
        offset2 == offset1 + dur - crossfade_dur
        intro_ms == intro_visible * 10
    IN  [w |-> w, h |-> h, fps |-> fps,
         xfade1 |-> [duration |-> crossfade_dur, offset |-> offset1],
         xfade2 |-> [duration |-> crossfade_dur, offset |-> offset2],
         afade |-> [st |-> Max(0, dur - crossfade_dur), d |-> crossfade_dur],
         adelay |-> intro_ms]

\* lines 145-146: the call with the default intro_visible and crossfade_dur
BuildCrossfadeFilter(dur, w, h, fps) ==
    CrossfadeFilter(dur, w, h, fps, IntroVisible, CrossfadeDur)

NoFilter == [w |-> 0, h |-> 0, fps |-> [num |-> 0, den |-> 1],
             xfade1 |-> [duration |-> 0, offset |-> 0],
             xfade2 |-> [duration |-> 0, offset |-> 0],
             afade |-> [st |-> 0, d |-> 0], adelay |-> 0]

(* ============================ commands ================================= *)
NoPath == [dir |-> <<>>, name |-> <<>>]
IntroImg(p) == [dir |-> ProjDir(p), name |-> <<"intro", ".png">>]
OutroImg(p) == [dir |-> ProjDir(p), name |-> <<"outro", ".png">>]

NoCmd == [stage |-> "none", inputs |-> <<>>, filter |-> NoFilter, vcodec |-> <<>>,
          output |-> NoPath]

\* lines 131-135: ffmpeg -y -i main -af loudnorm=... normalized
NormalizeCmd(p) ==
    [stage |-> "normalize", inputs |-> <<MainVideo(p)>>, filter |-> NoFilter,
     vcodec |-> <<>>, output |-> NormalizedVideo(p)]

\* mutation of VCodec: every name but h264 selects the software encoder
VCodecSoftwareDefault(c) ==
    IF c = "h264" THEN <<"-c:v", "h264_nvenc", "-pix_fmt", "yuv420p">>
    ELSE <<"-c:v", "libx265", "-pix_fmt", "yuv420p", "-x265-params", "crf=28">>

\* lines 149-166: the codec policy table
VCodec(c) ==
    IF c = "h265" THEN <<"-c:v", "libx265", "-pix_fmt", "yuv420p", "-x265-params", "crf=28">>
    ELSE IF c = "h264" THEN <<"-c:v", "h264_nvenc", "-pix_fmt", "yuv420p">>
    ELSE <<"-c:v", "hevc_nvenc", "-preset", "p7", "-tune", "hq", "-pix_fmt", "yuv420p">>

\* lines 169-178: ffmpeg -y -loop 1 -t 5 -i intro -i normalized -loop 1 -t 5 -i outro ...
CompositeCmd(p, f, c) ==
    [stage |-> "composite", inputs |-> <<IntroImg(p), NormalizedVideo(p), OutroImg(p)>>,
     filter |-> f, vcodec |-> VCodec(c), output |-> FinalVideo(p)]

\* line 136: total_duration=get_duration(main_video)
NormalizeHint(raw) == raw

\* mutation of CompositeHint: only the intro's visible time is added
CompositeHintIntroOnly(dur) == dur + IntroVisible

\* line 168: total_proj_duration = main_dur + 8
CompositeHint(dur) == dur + HintPadding

\* str.lower() on the codec names the command line may carry
Lower(s) == IF s = "H264" THEN "h264" ELSE IF s = "H265" THEN "h265" ELSE s

(* =========================== process_project =========================== *)
\* the call of run_ffmpeg_with_progress(c, total_duration=hint)
CallRunner(c, hint) ==
    /\ rpc' = "call"
    /\ cmd' = c
    /\ total_duration' = Some(hint)
    /\ pbar' = None
    /\ returncode' = None
    /\ launches' = 0
    /\ line' = None
    /\ exc' = exc
    /\ invocations' = Append(invocations, [cmd |-> c, hint |-> hint])

\* the runner's frame is gone once its caller has resumed
DropRunner ==
    /\ rpc' = "idle"
    /\ cmd' = NoCmd
    /\ total_duration' = None
    /\ pbar' = None
    /\ returncode' = None
    /\ launches' = 0
    /\ line' = None
    /\ child' = "none"
    /\ stderrOpen' = FALSE
    /\ written' = 0
    /\ childRc' = None
    /\ buf' = <<>>

\* mutation of Mkdirs: 03_Final is left for the render stage to create
MkdirsWorkOnly ==
    /\ ppc = "mkdirs"
    /\ dirs' = dirs \cup {WorkDir(idx)}
    /\ ppc' = "find_main"
    /\ UNCHANGED <<exits, vidExists, projects, argv, args, files, mainVars, rawDur, main_dur, info,
                   filter, probes, invocations, runVars, childVars>>

\* lines 109-113: both output directories are created first
Mkdirs ==
    /\ ppc = "mkdirs"
    /\ dirs' = dirs \cup {WorkDir(idx), FinalDir(idx)}
    /\ ppc' = "find_main"
    /\ UNCHANGED <<exits, vidExists, projects, argv, args, files, mainVars, rawDur, main_dur, info,
                   filter, probes, invocations, runVars, childVars>>

\* line 117: main_video is None
NoMainVideo(pr) == ~pr.main

\* lines 116-119
FindMain ==
    /\ ppc = "find_main"
    /\ ppc' = IF NoMainVideo(projects[idx]) THEN "skipped" ELSE "check_images"
    /\ UNCHANGED <<exits, worldVars, mainVars, rawDur, main_dur, info, filter, probes,
                   invocations, runVars, childVars>>

\* mutation of MissingImages: the outro image is not looked for
MissingImagesIntroOnly(pr) == ~pr.intro

\* line 123: not intro_img.exists() or not outro_img.exists()
MissingImages(pr) == ~pr.intro \/ ~pr.outro

\* lines 121-125
CheckImages ==
    /\ ppc = "check_images"
    /\ ppc' = IF MissingImages(projects[idx]) THEN "skipped" ELSE "probe_raw"
    /\ UNCHANGED <<exits, worldVars, mainVars, rawDur, main_dur, info, filter, probes,
                   invocations, runVars, childVars>>

\* one ffprobe call and what it returned
ProbeCall(fn, path, v) == [fn |-> fn, path |-> path, result |-> Some(v)]

\* a probe that fails raises out of process_project (no handler, lines 108-182)
ProbeRaises(fn, path) ==
    /\ exc' = Some(ProbeError([fn |-> fn, path |-> path]))
    /\ probes' = Append(probes, [fn |-> fn, path |-> path, result |-> None])
    /\ ppc' = "raised"

\* line 136: get_duration(main_video), evaluated before the runner is called
ProbeRaw ==
    /\ ppc = "probe_raw"
    /\ \/ \E d \in DurationValues :
             /\ rawDur' = Some(d)
             /\ probes' = Append(probes, ProbeCall("get_duration", MainVideo(idx), d))
             /\ ppc' = "call_normalize"
             /\ exc' = exc
       \/ /\ ProbeRaises("get_duration", MainVideo(idx))
          /\ rawDur' = rawDur
    /\ UNCHANGED <<exits, worldVars, mainVars, main_dur, info, filter, invocations,
                   rpc, line, cmd, total_duration, pbar, returncode, launches, childVars>>

\* lines 131-136
CallNormalize ==
    /\ ppc = "call_normalize"
    /\ CallRunner(NormalizeCmd(idx), NormalizeHint(rawDur[1]))
    /\ ppc' = "normalizing"
    /\ UNCHANGED <<exits, worldVars, mainVars, rawDur, main_dur, info, filter, probes, childVars>>

\* line 136 -> 139: the normalization call returned normally; nothing closes
\* process.stderr (lines 13-45), the file object is closed when the last
\* reference to process goes with the runner's frame
NormalizeReturned ==
    /\ ppc = "normalizing" /\ rpc = "returned"
    /\ DropRunner
    /\ pipeOpen' = FALSE
    /\ ppc' = "probe_duration"
    /\ UNCHANGED <<exits, worldVars, mainVars, rawDur, main_dur, info, filter, probes,
                   invocations, exc>>

\* lines 131, 169: a raise of the runner is not handled in process_project
\* the traceback of the propagating exception keeps the runner's frame, and
\* with it process and the open process.stderr
RunnerRaised ==
    /\ ppc \in {"normalizing", "compositing"} /\ rpc = "raised"
    /\ DropRunner
    /\ pipeOpen' = pipeOpen
    /\ ppc' = "raised"
    /\ UNCHANGED <<exits, worldVars, mainVars, rawDur, main_dur, info, filter, probes,
                   invocations, exc>>

\* line 139: main_dur = get_duration(normalized_video)
ProbeDuration ==
    /\ ppc = "probe_duration"
    /\ \/ \E d \in DurationValues :
             /\ main_dur' = Some(d)
             /\ probes' = Append(probes, ProbeCall("get_duration", NormalizedVideo(idx), d))
             /\ ppc' = "probe_stream"
             /\ exc' = exc
       \/ /\ ProbeRaises("get_duration", NormalizedVideo(idx))
          /\ main_dur' = main_dur
    /\ UNCHANGED <<exits, worldVars, mainVars, rawDur, info, filter, invocations,
                   rpc, line, cmd, total_duration, pbar, returncode, launches, childVars>>

\* line 143: w, h, fps = get_stream_info(normalized_video)
ProbeStream ==
    /\ ppc = "probe_stream"
    /\ \/ \E out \in StreamOutputs :
             /\ info' = StreamInfo(out)
             /\ probes' = Append(probes, ProbeCall("get_stream_info", NormalizedVideo(idx),
                                                   StreamInfo(out)))
             /\ ppc' = "build_filter"
             /\ exc' = exc
       \/ /\ ProbeRaises("get_stream_info", NormalizedVideo(idx))
          /\ info' = info
    /\ UNCHANGED <<exits, worldVars, mainVars, rawDur, main_dur, filter, invocations,
                   rpc, line, cmd, total_duration, pbar, returncode, launches, childVars>>

\* mutation of BuildFilter: the graph is built on the raw video's duration
BuildFilterFromRaw ==
    /\ ppc = "build_filter"
    /\ filter' = BuildCrossfadeFilter(rawDur[1], info.w, info.h, info.fps)
    /\ ppc' = "call_composite"
    /\ UNCHANGED <<exits, worldVars, mainVars, rawDur, main_dur, info, probes, invocations,
                   runVars, childVars>>

\* lines 145-146
BuildFilter ==
    /\ ppc = "build_filter"
    /\ filter' = BuildCrossfadeFilter(main_dur[1], info.w, info.h, info.fps)
    /\ ppc' = "call_composite"
    /\ UNCHANGED <<exits, worldVars, mainVars, rawDur, main_dur, info, probes, invocations,
                   runVars, childVars>>

\* lines 148-179
CallComposite ==
    /\ ppc = "call_composite"
    /\ CallRunner(CompositeCmd(idx, filter, codec), CompositeHint(main_dur[1]))
    /\ ppc' = "compositing"
    /\ UNCHANGED <<exits, worldVars, mainVars, rawDur, main_dur, info, filter, probes, childVars>>

\* lines 179-182: the composite call returned normally
CompositeReturned ==
    /\ ppc = "compositing" /\ rpc = "returned"
    /\ DropRunner
    /\ pipeOpen' = FALSE
    /\ ppc' = "finished"
    /\ UNCHANGED <<exits, worldVars, mainVars, rawDur, main_dur, info, filter, probes,
                   invocations, exc>>

(* ================================ main ================================= *)
\* lines 188-193
CheckVidDir ==
    /\ mpc = "start"
    /\ IF vidExists
       THEN /\ mpc' = "codec"
            /\ exitStatus' = exitStatus
       ELSE /\ mpc' = "exited"
            /\ exitStatus' = Some(1)
    /\ UNCHANGED <<exits, worldVars, idx, codec, started, projVars, runVars, childVars>>

\* lines 195-199
SelectCodec ==
    /\ mpc = "codec"
    /\ codec' = IF argv # None THEN Lower(argv[1]) ELSE "h265_nvenc"
    /\ mpc' = "loop"
    /\ UNCHANGED <<exits, worldVars, idx, exitStatus, started, projVars, runVars, childVars>>

\* process_project's frame at its entry
EnterProject ==
    /\ ppc' = "mkdirs"
    /\ rawDur' = None
    /\ main_dur' = None
    /\ info' = NoInfo
    /\ filter' = NoFilter
    /\ probes' = <<>>
    /\ invocations' = <<>>
    /\ exits' = <<>>

\* lines 202-203: the next project directory of the listing
NextProject ==
    /\ mpc = "loop"
    /\ ppc \in {"idle", "skipped", "finished"}
    /\ idx < Len(projects)
    /\ idx' = idx + 1
    /\ started' = started \cup {idx + 1}
    /\ EnterProject
    /\ UNCHANGED <<worldVars, mpc, codec, exitStatus, runVars, childVars>>

\* line 202: the listing is exhausted; main returns and the interpreter exits 0
Finish ==
    /\ mpc = "loop"
    /\ ppc \in {"idle", "skipped", "finished"}
    /\ idx = Len(projects)
    /\ mpc' = "exited"
    /\ exitStatus' = Some(0)
    /\ UNCHANGED <<exits, worldVars, idx, codec, started, projVars, runVars, childVars>>

\* lines 203, 206: an exception leaving process_project is handled nowhere in main;
\* the interpreter prints the traceback and exits with status 1
Uncaught ==
    /\ mpc = "loop"
    /\ ppc = "raised"
    /\ mpc' = "exited"
    /\ exitStatus' = Some(1)
    /\ UNCHANGED <<exits, worldVars, idx, codec, started, projVars, runVars, childVars>>

(* ========================== specifications ============================= *)
Project == [main : BOOLEAN, intro : BOOLEAN, outro : BOOLEAN]

RECURSIVE Listings(_)
Listings(n) ==
    IF n = 0 THEN {<<>>}
    ELSE Listings(n - 1) \cup
         {Append(l, pr) : l \in {x \in Listings(n - 1) : Len(x) = n - 1}, pr \in Project}

IdleFrames ==
    /\ dirs = {} /\ files = {} /\ args = None
    /\ idx = 0 /\ codec = "" /\ exitStatus = None /\ started = {}
    /\ ppc = "idle" /\ rawDur = None /\ main_dur = None /\ info = NoInfo
    /\ filter = NoFilter /\ probes = <<>> /\ invocations = <<>>
    /\ pbar = None /\ returncode = None /\ launches = 0 /\ exc = None /\ line = None
    /\ child = "none" /\ stderrOpen = FALSE /\ written = 0 /\ childRc = None
    /\ pipeOpen = FALSE /\ buf = <<>>
    /\ exits = <<>>

\* a batch run: python process_videos.py [--codec NAME]
Init ==
    /\ vidExists \in BOOLEAN
    /\ projects \in (IF vidExists THEN Listings(MaxProjects) ELSE {<<>>})
    /\ argv \in ArgvCodecs
    /\ mpc = "start"
    /\ rpc = "idle" /\ cmd = NoCmd /\ total_duration = None
    /\ IdleFrames

Next ==
    \/ CheckVidDir
    \/ SelectCodec
    \/ NextProject
    \/ Finish
    \/ Uncaught
    \/ Mkdirs
    \/ FindMain
    \/ CheckImages
    \/ ProbeRaw
    \/ CallNormalize
    \/ NormalizeReturned
    \/ RunnerRaised
    \/ ProbeDuration
    \/ ProbeStream
    \/ BuildFilter
    \/ CallComposite
    \/ CompositeReturned
    \/ RunNext

Spec == Init /\ [][Next]_vars

\* lines 30-36 on their own: one iteration of the read loop on one line
ScanLine ==
    /\ rpc = "scan"
    /\ pbar' = UpdatePbar(pbar, total_duration, line[1])
    /\ rpc' = "scanned"
    /\ UNCHANGED <<exits, worldVars, mainVars, projVars, line, cmd, total_duration,
                   returncode, launches, exc, childVars>>

\* get_stream_info on its own, lines 76-80, on the output ffprobe gives for a
\* stream of args.w x args.h at args.num/args.den
GetStreamInfo ==
    /\ ppc = "probe_call"
    /\ info' = StreamInfo(StreamLines(args[1].w, args[1].h, args[1].num, args[1].den))
    /\ ppc' = "probe_done"
    /\ UNCHANGED <<exits, worldVars, mainVars, rawDur, main_dur, filter, probes,
                   invocations, runVars, childVars>>

\* build_crossfade_filter on its own, lines 85-103
FilterCall ==
    /\ ppc = "filter_call"
    /\ filter' = CrossfadeFilter(args[1].main_duration, args[1].w, args[1].h, args[1].fps,
                                 args[1].intro_visible, args[1].crossfade_dur)
    /\ ppc' = "filter_done"
    /\ UNCHANGED <<exits, worldVars, mainVars, rawDur, main_dur, info, probes,
                   invocations, runVars, childVars>>

\* one call run_ffmpeg_with_progress(cmd, total_duration) on its own
RunTotals == {None} \cup {Some(d) : d \in DurationValues \cup {CompositeHint(0)}}

InitRun ==
    /\ vidExists = TRUE /\ projects = <<>> /\ argv = None
    /\ mpc = "unit"
    /\ rpc = "call" /\ cmd = NormalizeCmd(1)
    /\ total_duration \in RunTotals
    /\ IdleFrames

SpecRun == InitRun /\ [][RunNext]_vars

\* the read loop about to scan a line, with any progress published so far
LongDuration == 100 * 360000   \* a 100 h total, above every marker of UnitLines
ScanTotals == RunTotals \cup {Some(LongDuration)}

InitScan ==
    /\ vidExists = TRUE /\ projects = <<>> /\ argv = None
    /\ mpc = "unit"
    /\ rpc = "scan" /\ cmd = NormalizeCmd(1)
    /\ total_duration \in ScanTotals
    /\ line \in {Some(l) : l \in UnitLines}
    /\ dirs = {} /\ files = {} /\ args = None
    /\ idx = 0 /\ codec = "" /\ exitStatus = None /\ started = {}
    /\ ppc = "idle" /\ rawDur = None /\ main_dur = None /\ info = NoInfo
    /\ filter = NoFilter /\ probes = <<>> /\ invocations = <<>>
    /\ pbar \in {NewPbar(total_duration),
                 UpdatePbar(NewPbar(total_duration), total_duration, Stamp(0, 0, 3, 50))}
    /\ returncode = None /\ launches = 1 /\ exc = None
    /\ child = "running" /\ stderrOpen = TRUE /\ written = 0 /\ childRc = None
    /\ pipeOpen = TRUE /\ buf = <<>>
    /\ exits = <<>>

SpecScan == InitScan /\ [][ScanLine]_vars
\* the state every function taken on its own starts from
Standalone ==
    /\ vidExists = TRUE /\ projects = <<>> /\ argv = None
    /\ dirs = {} /\ files = {}
    /\ mpc = "unit" /\ idx = 0 /\ codec = "" /\ exitStatus = None /\ started = {}
    /\ rawDur = None /\ main_dur = None /\ info = NoInfo
    /\ filter = NoFilter /\ probes = <<>> /\ invocations = <<>>
    /\ rpc = "idle" /\ cmd = NoCmd /\ total_duration = None /\ line = None
    /\ pbar = None /\ returncode = None /\ launches = 0 /\ exc = None
    /\ child = "none" /\ stderrOpen = FALSE /\ written = 0 /\ childRc = None
    /\ pipeOpen = FALSE /\ buf = <<>>
    /\ exits = <<>>

\* build_crossfade_filter(intro, main, outro, main_duration, w, h, fps,
\*                        intro_visible, crossfade_dur)
FilterArgs ==
    [main_duration : {0, 50, 100, 101, 150, 2000},
     w : {1920}, h : {1080}, fps : {[num |-> 30, den |-> 1]},
     intro_visible : {0, 250, 400},
     crossfade_dur : {0, 100, 200}]

InitFilter ==
    /\ Standalone
    /\ ppc = "filter_call"
    /\ args \in {Some(a) : a \in FilterArgs}

SpecFilter == InitFilter /\ [][FilterCall]_vars

\* the streams get_stream_info is tried on
ProbeArgs ==
    [w : {1920, 1280}, h : {1080},
     num : {-1, 0, 1, 24, 25, 30, 30000}, den : {0, 1, 2, 1001}]

InitProbe ==
    /\ Standalone
    /\ ppc = "probe_call"
    /\ args \in {Some(a) : a \in ProbeArgs}

SpecProbe == InitProbe /\ [][GetStreamInfo]_vars

\* one call of run_ffmpeg_with_progress with the pipe between child and parent.
\* The parent's thread keeps running: a statement that can execute does, and a
\* read that has a line to take takes it (Drain is PipeRead as the pipe sees
\* it); the child is one that exits.
ParentStep == Popen \/ MakePbar \/ ReadEOF \/ Wait \/ ClosePbar \/ CheckReturncode
Drain == rpc = "reading" /\ buf # <<>> /\ buf' = Tail(buf)

PipeNext ==
    \/ Popen
    \/ MakePbar
    \/ ChildWrite
    \/ PipeRead
    \/ ReadEOF
    \/ Wait
    \/ ClosePbar
    \/ CheckReturncode
    \/ ChildCloseStderr
    \/ ChildExit

SpecPipe ==
    InitRun /\ [][PipeNext]_vars
            /\ WF_vars(ParentStep) /\ WF_buf(Drain) /\ WF_vars(ChildExit)

(* ============================== claims ================================= *)
\* the project directory lacks one of {main video, intro image, outro image}
MissingInputs(pr) == ~(pr.main /\ pr.intro /\ pr.outro)
InProject == idx \in 1..Len(projects) /\ ppc # "idle"
RunnerDone == rpc \in {"returned", "raised"}

\* C1: process_project never raises past the project boundary: whatever the
\* probes and the two encoding processes do, it returns normally to its caller.
C1_NeverRaises == ppc # "raised"

\* C2: a failure in one project does not abort the batch: once the run over an
\* existing VID directory is over, process_project has been started for every
\* project directory of the listing.
C2_EveryProjectStarted ==
    (mpc = "exited" /\ vidExists) => started = 1..Len(projects)

\* C3: the exit status of the run is non-zero if the root directory is absent
\* and zero otherwise, whatever happened to the individual projects.
C3_ExitStatus ==
    mpc = "exited" => (exitStatus # None /\ (exitStatus[1] # 0 <=> ~vidExists))

\* C4: a project missing its main video, intro image or outro image is skipped:
\* no probe and no encoding process is launched for it, no file is written into
\* its final directory, process_project returns normally, and the batch goes on
\* to the next project directory (or to its end when there is none).
C4_SkipIsInert ==
    (InProject /\ MissingInputs(projects[idx])) =>
        /\ ppc \in {"mkdirs", "find_main", "check_images", "skipped"}
        /\ probes = <<>> /\ invocations = <<>> /\ exits = <<>>
        /\ rpc = "idle" /\ launches = 0 /\ child = "none"
        /\ \A f \in files : f.dir # FinalDir(idx)
        /\ ppc = "skipped" =>
              \/ mpc = "loop" /\ idx < Len(projects) /\ ENABLED NextProject
              \/ mpc = "loop" /\ idx = Len(projects) /\ ENABLED Finish
              \/ mpc = "exited" /\ idx = Len(projects) /\ exitStatus = Some(0)

C4_Witness ==
    /\ idx = 2 /\ ppc = "skipped"
    /\ MissingInputs(projects[1]) /\ MissingInputs(projects[2])
    /\ started = {1, 2}

\* C5: with a total duration supplied, every published progress value lies
\* between 0 and the total, also when a line's timestamp exceeds the total.
C5_Clamped ==
    (total_duration # None /\ pbar # None) =>
        /\ 0 <= pbar[1].n
        /\ pbar[1].n <= total_duration[1]
        /\ pbar[1].total = total_duration[1]

C5_Witness ==
    /\ rpc = "reading" /\ written = MaxLines
    /\ pbar # None /\ pbar[1].n = total_duration[1]

\* C6: within one invocation the published progress value never decreases,
\* also when a later line carries a smaller timestamp than an earlier one.
C6_Monotonic ==
    [][(pbar # None /\ pbar' # None) => pbar'[1].n >= pbar[1].n]_vars

\* C7: one call launches exactly one child, looks at the exit status only after
\* end-of-stream and process exit, returns normally iff the status is zero, and
\* otherwise raises an error carrying exactly that status.
C7_ExitStatusContract ==
    /\ launches <= 1
    /\ rpc \notin {"idle", "call"} => launches = 1
    /\ rpc \in {"finish", "check", "returned", "raised"} =>
          /\ child = "exited" /\ ~stderrOpen
          /\ returncode = childRc
    /\ RunnerDone => (rpc = "returned" <=> childRc[1] = 0)
    /\ rpc = "raised" =>
          /\ exc # None
          /\ exc[1].type = "CalledProcessError"
          /\ exc[1].returncode = childRc[1]
          /\ exc[1].cmd = cmd

C7_Witness == rpc = "raised" /\ childRc = Some(2) /\ launches = 1 /\ written > 0

\* C8 as stated: whenever a total duration is supplied and the child exits with
\* status zero, the published progress equals the total when the call returns.
C8_ReachesSuppliedTotal ==
    (rpc = "returned" /\ total_duration # None) =>
        (pbar # None /\ pbar[1].n = total_duration[1])

\* C8 (amended): whenever a non-zero total duration is supplied and the child
\* exits with status zero, the published progress equals the total when the call
\* returns, whatever the stream carried.
C8_ReachesTotal ==
    (rpc = "returned" /\ Truthy(total_duration)) =>
        (pbar # None /\ pbar[1].n = total_duration[1] /\ pbar[1].closed)

C8_Witness ==
    /\ rpc = "returned" /\ Truthy(total_duration) /\ written = 0
    /\ pbar[1].n = total_duration[1]

\* C9: called with no total duration, the runner never publishes a progress
\* value, still returns only after end-of-stream and process exit, and its
\* outcome is decided by the exit status alone.
C9_NoDurationNoProgress ==
    total_duration = None =>
        /\ pbar = None
        /\ RunnerDone =>
              /\ child = "exited" /\ ~stderrOpen
              /\ rpc = "returned" <=> childRc[1] = 0
              /\ rpc = "raised" => exc[1].type = "CalledProcessError"

C9_Witness ==
    /\ rpc = "returned" /\ total_duration = None /\ cmd # NoCmd
    /\ written = MaxLines /\ pbar = None

\* C10: a project with all inputs and only successful external calls makes
\* exactly two encoding invocations: the normalization, hinted with the probed
\* duration of the raw video, then the composite, hinted with the normalized
\* file's probed duration plus 8 s and writing <project>/03_Final/<name>_final.mp4;
\* the composite is never started unless the normalization exited with zero.
C10_TwoInvocations ==
    /\ Len(invocations) <= 2
    /\ Len(invocations) >= 1 =>
          /\ invocations[1].cmd.stage = "normalize"
          /\ probes[1].fn = "get_duration" /\ probes[1].path = MainVideo(idx)
          /\ invocations[1].hint = probes[1].result[1]
    /\ Len(invocations) = 2 =>
          /\ Len(exits) >= 1 /\ exits[1] = 0
          /\ invocations[2].cmd.stage = "composite"
          /\ probes[2].fn = "get_duration" /\ probes[2].path = NormalizedVideo(idx)
          /\ invocations[2].hint = probes[2].result[1] + 800
          /\ invocations[2].cmd.output =
                [dir |-> <<"VID", ProjNames[idx], "03_Final">>,
                 name |-> <<ProjNames[idx], "_final.mp4">>]
    /\ ppc = "finished" => (Len(invocations) = 2 /\ exits = <<0, 0>>)

C10_Witness ==
    /\ ppc = "finished" /\ idx = 1 /\ ProjNames[idx] = "Demo"
    /\ invocations[1].hint = 2000 /\ invocations[2].hint = 2800
    /\ FinalVideo(1) \in files

\* C11: on a line carrying a valid marker time=HH:MM:SS.CC the extracted time is
\* 360000*h + 6000*m + 100*s + cc centiseconds exactly (published clamped to
\* the total); a line the marker pattern does not match raises nothing and
\* leaves the progress value as it was.
C11_MarkerTime ==
    [][rpc' = "scanned" =>
        LET l == line[1]
            tracked == Truthy(total_duration) /\ pbar # None
        IN  /\ \A f \in MarkerFields :
                 l = MarkerLine(f) =>
                    LET t == 360000 * f.h + 6000 * f.m + 100 * f.s + f.cc
                    IN  /\ Search(l) # None
                        /\ Seconds(Search(l)[1]) = t
                        /\ tracked =>
                              pbar'[1].n = (IF t <= total_duration[1] THEN t
                                            ELSE total_duration[1])
            /\ l \in UnmatchedLines => (pbar' = pbar /\ exc' = exc /\ exc' = None)
            /\ ~tracked => pbar' = pbar]_vars

C11_Witness ==
    /\ rpc = "scanned"
    /\ line = Some(MarkerLine([h |-> 12, m |-> 59, s |-> 59, cc |-> 99]))
    /\ pbar # None /\ pbar[1].n = 4679999

C13_FrameRate ==
    ppc = "probe_done" =>
        /\ exc = None
        /\ info.w = args[1].w /\ info.h = args[1].h
        /\ args[1].den = 0 => info.fps = [num |-> 25, den |-> 1]
        /\ args[1].den # 0 =>
              /\ info.fps.den # 0
              /\ info.fps.num * args[1].den = args[1].num * info.fps.den

C13_Witness ==
    /\ ppc = "probe_done"
    /\ args[1].num = 30000 /\ args[1].den = 0
    /\ info.fps = [num |-> 25, den |-> 1]

\* C14: once an invocation of run_ffmpeg_with_progress has returned to its
\* caller, normally or by raising, the pipe opened for it is closed, and no
\* pipe is open when the next invocation starts.
C14_HandlesReleased ==
    /\ (rpc = "idle" /\ ppc # "idle") => ~pipeOpen
    /\ rpc = "call" => ~pipeOpen

\* the normalization has raised CalledProcessError into process_project and the
\* pipe of that invocation is still open
C14_OpenAfterRaise ==
    /\ ppc = "raised" /\ rpc = "idle"
    /\ exc # None /\ exc[1].type = "CalledProcessError"
    /\ pipeOpen

C16_Reprobed ==
    LET normalized == [dir |-> <<"VID", ProjNames[idx], "02_Work">>,
                       name |-> <<"normalized", ".mp4">>]
        graph(d, s) == [w |-> s.w, h |-> s.h, fps |-> s.fps,
                        offset2 |-> IntroVisible + d - CrossfadeDur]
        built(f) == [w |-> f.w, h |-> f.h, fps |-> f.fps, offset2 |-> f.xfade2.offset]
    IN  /\ Len(probes) >= 1 =>
              /\ probes[1].fn = "get_duration" /\ probes[1].path = MainVideo(idx)
              /\ Len(invocations) >= 1 =>
                    /\ invocations[1].cmd.stage = "normalize"
                    /\ invocations[1].hint = probes[1].result[1]
        /\ Len(probes) >= 2 =>
              /\ probes[2].fn = "get_duration" /\ probes[2].path = normalized
              /\ Len(invocations) >= 1 /\ exits # <<>> /\ exits[1] = 0
              /\ Len(invocations) = 1 => rpc = "idle"
        /\ Len(probes) >= 3 =>
              /\ probes[3].fn = "get_stream_info" /\ probes[3].path = normalized
        /\ filter # NoFilter =>
              /\ Len(probes) = 3
              /\ built(filter) = graph(probes[2].result[1], probes[3].result[1])
        /\ Len(invocations) = 2 =>
              /\ Len(probes) = 3
              /\ invocations[2].cmd.stage = "composite"
              /\ built(invocations[2].cmd.filter)
                    = graph(probes[2].result[1], probes[3].result[1])
              /\ invocations[2].hint = probes[2].result[1] + HintPadding

\* a composite invocation for a video whose raw and normalized durations differ
C16_Witness ==
    /\ Len(invocations) = 2 /\ Len(probes) = 3
    /\ probes[1].result[1] = 0 /\ probes[2].result[1] = 2000
    /\ invocations[1].hint = 0 /\ invocations[2].hint = 2800

\* C17: the codec selection is made once and no later step changes it, and
\* every composite invocation of the batch carries the fragment the command
\* line selects: libx265 for h265, h264_nvenc for h264 (in any case), and
\* hevc_nvenc with preset p7 and tune hq when no name is given.
C17_CodecPolicy ==
    [][/\ mpc # "codec" => codec' = codec
       /\ \A i \in 1..Len(invocations') :
             invocations'[i].cmd.stage = "composite" =>
                LET v == invocations'[i].cmd.vcodec
                IN  /\ argv = <<"h265">> => (v[1] = "-c:v" /\ v[2] = "libx265")
                    /\ argv = <<"H264">> => (v[1] = "-c:v" /\ v[2] = "h264_nvenc")
                    /\ argv = None =>
                          SubSeq(v, 1, 6)
                             = <<"-c:v", "hevc_nvenc", "-preset", "p7", "-tune", "hq">>]_vars

\* the second project of a batch run without --codec is composited, after the
\* first one was
C17_Witness ==
    /\ argv = None /\ idx = 2 /\ FinalVideo(1) \in files
    /\ Len(invocations) = 2
    /\ invocations[2].cmd.vcodec[2] = "hevc_nvenc"

\* C18: a total-duration hint of 0 is handled like no hint: the invocation has
\* no progress indicator at any point, whatever the child writes, and it still
\* returns on exit status 0 and raises CalledProcessError on any other; so a
\* main video probed at 0.0 is normalized without progress tracking.
C18_ZeroHintUntracked ==
    /\ (rpc # "idle" /\ total_duration \in {None, Some(0)}) =>
          /\ pbar = None
          /\ rpc = "returned" => returncode = Some(0)
          /\ rpc = "raised" =>
                /\ returncode # None /\ returncode[1] # 0
                /\ exc = Some(CalledProcessError(returncode[1], cmd))
    /\ (ppc = "normalizing" /\ rawDur = Some(0)) => total_duration = Some(0)

\* the normalization of a video probed at 0.0 has read lines and failed
C18_Witness ==
    /\ ppc = "normalizing" /\ rawDur = Some(0)
    /\ rpc = "raised" /\ written = MaxLines
    /\ pbar = None

\* C19 as stated: whenever a total duration is supplied, once the process has
\* exited the progress equals the total and the indicator is closed, whatever
\* the exit status, and the error is raised only after that.
C19_FinalProgressSupplied ==
    total_duration # None =>
        /\ rpc \in {"check", "returned", "raised"} =>
              /\ pbar # None /\ pbar[1].n = total_duration[1] /\ pbar[1].closed
              /\ child = "exited"
        /\ rpc \in {"call", "mkpbar", "reading", "wait", "finish"} =>
              /\ exc = None
              /\ pbar # None => ~pbar[1].closed

\* C19 (amended): whenever a non-zero total duration is supplied, once the
\* process has exited the progress equals the total and the indicator is closed,
\* whatever the exit status; before that the indicator is open and no error has
\* been raised, so the error follows the final progress update.
C19_FinalProgress ==
    Truthy(total_duration) =>
        /\ rpc \in {"check", "returned", "raised"} =>
              /\ pbar # None /\ pbar[1].n = total_duration[1] /\ pbar[1].closed
              /\ child = "exited"
        /\ rpc \in {"call", "mkpbar", "reading", "wait", "finish"} =>
              /\ exc = None
              /\ pbar # None => ~pbar[1].closed
        /\ exc # None => rpc = "raised"

\* a failed invocation that never saw a time marker ends at its total
C19_Witness ==
    /\ rpc = "raised" /\ returncode = Some(1) /\ exc # None
    /\ total_duration = Some(2000) /\ written = 0
    /\ pbar[1].n = 2000 /\ pbar[1].closed

\* C20: 02_Work and 03_Final of the project exist from before the input checks
\* on, so also after a skip; a skipped project has no other directory and no
\* file created in it.
C20_SkipLeavesDirs ==
    LET work == <<"VID", ProjNames[idx], "02_Work">>
        final == <<"VID", ProjNames[idx], "03_Final">>
    IN  /\ ppc \in {"find_main", "check_images", "skipped"} =>
              /\ work \in dirs /\ final \in dirs
              /\ \A d \in dirs : d[2] = ProjNames[idx] => d \in {work, final}
              /\ \A f \in files : f.dir[2] # ProjNames[idx]
        /\ ppc = "skipped" => (InProject /\ MissingInputs(projects[idx]))

\* the second project is skipped after the first one was rendered
C20_Witness ==
    /\ ppc = "skipped" /\ idx = 2
    /\ FinalVideo(1) \in files
    /\ WorkDir(2) \in dirs /\ FinalDir(2) \in dirs
====
